---- MODULE Spec2Model ----
(***************************************************************************)
(* Model of the image-transformation Lambda handler of                     *)
(* src/functions/image-processing/index.mjs.                               *)
(*                                                                         *)
(* JavaScript strings that the handler splits, joins or parses are         *)
(* sequences of one-character strings.  A JavaScript value that may be     *)
(* undefined is a record [def, s]; a JavaScript number that may be NaN is  *)
(* a record [nan, n].  Strings the handler only passes along (content      *)
(* types, messages) are TLA+ strings.                                      *)
(***************************************************************************)
EXTENDS Integers, Sequences, FiniteSets, TLC

\* ------------------------------------------------------------------ bounds
\* Longest buffer the image engine is let to produce, in bytes.
MaxBytes == 3

\* ------------------------------------------------------- JavaScript values
Str(s) == [def |-> TRUE, s |-> s]
Undefined == [def |-> FALSE, s |-> <<>>]
\* ToBoolean of a string-or-undefined value: undefined and '' are falsy.
Truthy(v) == v.def /\ v.s # <<>>

\* ToBoolean of a number-or-undefined value [def, n]: undefined and 0 are falsy.
NumberTruthy(v) == v.def /\ v.n # 0

Num(n) == [nan |-> FALSE, n |-> n]
NaN == [nan |-> TRUE, n |-> 0]

Digits == <<"0", "1", "2", "3", "4", "5", "6", "7", "8", "9">>
IsDigit(c) == \E i \in 1..10 : Digits[i] = c
DigitVal(c) == (CHOOSE i \in 1..10 : Digits[i] = c) - 1

\* Index of the first character of s at or after i that is not a space.
RECURSIVE SkipSpace(_, _)
SkipSpace(s, i) ==
    IF i <= Len(s) /\ s[i] = " " THEN SkipSpace(s, i + 1) ELSE i

\* Value of the longest run of decimal digits of s starting at i, given the
\* value acc of the digits already read.
RECURSIVE DigitRun(_, _, _)
DigitRun(s, i, acc) ==
    IF i <= Len(s) /\ IsDigit(s[i])
    THEN DigitRun(s, i + 1, 10 * acc + DigitVal(s[i]))
    ELSE acc

\* parseInt(string) with no radix: leading white space, an optional sign, then
\* the longest prefix of decimal digits; NaN when there is no digit.  (The
\* "0x" radix prefix is not in the alphabet of the modelled inputs.)
ParseIntStr(s) ==
    LET i == SkipSpace(s, 1)
        signed == i <= Len(s) /\ s[i] \in {"-", "+"}
        j == IF signed THEN i + 1 ELSE i
    IN IF j <= Len(s) /\ IsDigit(s[j])
       THEN Num((IF signed /\ s[i] = "-" THEN -1 ELSE 1) * DigitRun(s, j, 0))
       ELSE NaN

\* parseInt(value): undefined is converted to the string 'undefined' -> NaN.
parseInt(v) == IF v.def THEN ParseIntStr(v.s) ELSE NaN

\* String.prototype.split(c) for a one-character separator c.
RECURSIVE SplitFrom(_, _, _, _, _)
SplitFrom(s, c, i, parts, cur) ==
    IF i > Len(s) THEN Append(parts, cur)
    ELSE IF s[i] = c THEN SplitFrom(s, c, i + 1, Append(parts, cur), <<>>)
    ELSE SplitFrom(s, c, i + 1, parts, Append(cur, s[i]))
Split(s, c) == SplitFrom(s, c, 1, <<>>, <<>>)

\* Array.prototype.join(c).
RECURSIVE Join(_, _)
Join(parts, c) ==
    IF parts = <<>> THEN <<>>
    ELSE IF Len(parts) = 1 THEN parts[1]
    ELSE parts[1] \o <<c>> \o Join(Tail(parts), c)

\* String.prototype.replace(/from/g, to) for one-character from and to.
ReplaceAll(s, from, to) == [i \in 1..Len(s) |-> IF s[i] = from THEN to ELSE s[i]]

\* Array.prototype.pop / shift: the array that is left.
PopRest(a) == IF a = <<>> THEN <<>> ELSE SubSeq(a, 1, Len(a) - 1)
PopValue(a) == a[Len(a)]
ShiftRest(a) == IF a = <<>> THEN <<>> ELSE Tail(a)

\* Buffer.toString('base64'): three bytes become four characters of the
\* base64 alphabet, the last group is padded with '='.
B64Alphabet == <<"A", "B", "C", "D", "E", "F", "G", "H", "I", "J", "K", "L", "M", "N", "O", "P",
    "Q", "R", "S", "T", "U", "V", "W", "X", "Y", "Z", "a", "b", "c", "d", "e", "f",
    "g", "h", "i", "j", "k", "l", "m", "n", "o", "p", "q", "r", "s", "t", "u", "v",
    "w", "x", "y", "z", "0", "1", "2", "3", "4", "5", "6", "7", "8", "9", "+", "/">>
B64Char(n) == B64Alphabet[n + 1]
RECURSIVE Base64(_)
Base64(b) ==
    IF Len(b) = 0 THEN <<>>
    ELSE IF Len(b) = 1 THEN
        << B64Char(b[1] \div 4), B64Char((b[1] % 4) * 16), "=", "=" >>
    ELSE IF Len(b) = 2 THEN
        << B64Char(b[1] \div 4),
           B64Char((b[1] % 4) * 16 + b[2] \div 16),
           B64Char((b[2] % 16) * 4), "=" >>
    ELSE
        << B64Char(b[1] \div 4),
           B64Char((b[1] % 4) * 16 + b[2] \div 16),
           B64Char((b[2] % 16) * 4 + b[3] \div 64),
           B64Char(b[3] % 64) >> \o Base64(SubSeq(b, 4, Len(b)))

\* ------------------------------------------------------- string literals
S_width == <<"w", "i", "d", "t", "h">>
S_height == <<"h", "e", "i", "g", "h", "t">>
S_format == <<"f", "o", "r", "m", "a", "t">>
S_quality == <<"q", "u", "a", "l", "i", "t", "y">>
S_jpeg == <<"j", "p", "e", "g">>
S_gif == <<"g", "i", "f">>
S_webp == <<"w", "e", "b", "p">>
S_png == <<"p", "n", "g">>
S_avif == <<"a", "v", "i", "f">>
S_bmp == <<"b", "m", "p">>
S_original == <<"o", "r", "i", "g", "i", "n", "a", "l">>
S_BASE_URL == <<"h", "t", "t", "p", "s", ":", "/", "/", "s", "t", "a", "r", "l", "i", "g", "h", "t", "p", "h", "o", "t", "o", "s", ".", "s", "3", ".", "u", "s", "-", "w", "e", "s", "t", "-", "0", "0", "1", ".", "b", "a", "c", "k", "b", "l", "a", "z", "e", "b", "2", ".", "c", "o", "m">>

\* ------------------------------------------------------------- inputs
\* HTTP events: the request context or its http part may be missing.
Methods == {"GET", "POST"}
SourceKeys == { <<"r", "i", "o", "/", "a", " ", "b", ".", "j", "p", "g">> }
RootSegment == <<"i", "m", "a", "g", "e", "s">>
WidthValues == { <<"1", "0", "0">>, <<"a", "b", "c">> }
HeightValues == { <<"5", "0">> }
FormatValues == { S_jpeg, S_gif, S_webp, S_png, S_avif, S_bmp }
QualityValues == { <<"8", "0">>, <<"a", "b", "c">> }

\* key=value token of a directive, or nothing when the field is not given.
Field(key, values) == {<<>>} \cup { <<key \o <<"=">> \o v>> : v \in values }
\* The directive strings of the requests: every combination of the four
\* fields, the sentinel 'original', and a width flag without a value.
Directives ==
    { Join(w \o h \o f \o q, ",") :
        w \in Field(S_width, WidthValues), h \in Field(S_height, HeightValues),
        f \in Field(S_format, FormatValues), q \in Field(S_quality, QualityValues) }
    \cup { S_original, S_width }
Paths ==
    { <<"/">> \o RootSegment \o <<"/">> \o k \o <<"/">> \o d :
        k \in SourceKeys, d \in Directives }
Events ==
    { [requestContext |-> FALSE, http |-> FALSE, method |-> "GET", path |-> p] : p \in Paths }
    \cup { [requestContext |-> TRUE, http |-> FALSE, method |-> "GET", path |-> p] : p \in Paths }
    \cup { [requestContext |-> TRUE, http |-> TRUE, method |-> m, path |-> p] :
            m \in Methods, p \in Paths }

\* process.env values read at module load.
EnvBucketNames == { Undefined, Str(<<>>), Str(<<"c", "a", "c", "h", "e">>) }
EnvMaxImageSizes == { Undefined, Str(<<"2">>), Str(<<"a", "b", "c">>) }
EnvCacheTTLs == { "max-age=31622400" }

\* What the source fetch can settle with: a network error, or a response.
FetchResults ==
    { [kind |-> "error", status |-> 0, contentType |-> "null"] }
    \cup { [kind |-> "response", status |-> 404, contentType |-> "text/html"] }
    \cup { [kind |-> "response", status |-> 200, contentType |-> c] :
            c \in {"image/jpeg", "image/svg+xml"} }
\* imageMetadata.orientation: undefined, or an EXIF orientation.
Orientations == { [def |-> FALSE, n |-> 0], [def |-> TRUE, n |-> 1], [def |-> TRUE, n |-> 6] }
\* Buffers the encode step can produce.
ByteValues == {0, 255}
Buffers == UNION { [1..n -> ByteValues] : n \in 1..MaxBytes }

\* ------------------------------------------------------------- state
VARIABLES
    S3_TRANSFORMED_IMAGE_BUCKET,  \* process.env.transformedImageBucketName
    TRANSFORMED_IMAGE_CACHE_TTL,  \* process.env.transformedImageCacheTTL
    MAX_IMAGE_SIZE,               \* parseInt(process.env.maxImageSize)
    event,                        \* the argument of handler
    pc,                           \* where the invocation is suspended
    operationsPrefix,
    originalImagePath,
    imageUrl,
    response,                     \* what fetch settled with
    contentType,
    imageMetadata,
    operationsJSON,
    sharpCalls,                   \* calls made on the image engine, in order
    sharpError,                   \* the engine call that threw, or "none"
    transformedImage,
    imageTooBig,
    timingLog,                    \* stage names of the Server-Timing entries
    fetched,                      \* URLs passed to fetch, in order
    putCommands,                  \* PutObjectCommands sent, in order
    putResults,                   \* how each sent command settled
    errorLog,                     \* messages passed to logError, in order
    returned,                     \* values the handler returned
    rejected,                     \* the handler's promise rejected (uncaught)
    parked,                       \* the variables of a second invocation that
                                  \* is suspended at an await, or NoInvocation
    cacheStore                    \* objects of the transformed-image bucket, by key

config == <<S3_TRANSFORMED_IMAGE_BUCKET, TRANSFORMED_IMAGE_CACHE_TTL, MAX_IMAGE_SIZE, event>>
request == <<operationsPrefix, originalImagePath, imageUrl, fetched>>
vars == <<S3_TRANSFORMED_IMAGE_BUCKET, TRANSFORMED_IMAGE_CACHE_TTL, MAX_IMAGE_SIZE,
          event, pc, operationsPrefix, originalImagePath, imageUrl, response,
          contentType, imageMetadata, operationsJSON, sharpCalls, sharpError,
          transformedImage, imageTooBig, timingLog, fetched, putCommands,
          putResults, errorLog, returned, rejected, parked, cacheStore>>
\* What a step of the running invocation leaves alone outside its own variables.
outside == <<parked, cacheStore>>

\* ------------------------------------------------------------- the code
\* Variant of MethodAccepted that does not compare the method.
MethodAcceptedAnyMethod(ev) == ev.requestContext /\ ev.http

\* The GET check of the handler's first statement.
MethodAccepted(ev) == ev.requestContext /\ ev.http /\ ev.method = "GET"

\* sendError's return value (it also logs body, see the actions).
sendError(statusCode, body) == [statusCode |-> statusCode, body |-> body]

\* path.split('/') then pop(): the last segment.
OperationsPrefix(path) == PopValue(Split(path, "/"))
\* Variant of OriginalImagePath that also drops the first named segment.
OriginalImagePathDropRoot(path) ==
    Join(ShiftRest(ShiftRest(PopRest(Split(path, "/")))), "/")

\* ... then shift() and join('/'): the segments between the first and last.
OriginalImagePath(path) == Join(ShiftRest(PopRest(Split(path, "/"))), "/")
ImageUrl(path) == S_BASE_URL \o <<"/">> \o ReplaceAll(path, " ", "+")

\* Variant of ResponseOk that takes every response for a success.
ResponseOkAnyStatus(r) == r.kind = "response"

\* response.ok of the fetch response.
ResponseOk(r) == r.kind = "response" /\ r.status >= 200 /\ r.status <= 299

\* Object.fromEntries(prefix.split(',').map(op => op.split('='))): a later
\* entry of a key replaces an earlier one, a token without '=' has the value
\* undefined.
RECURSIVE FromEntries(_, _)
FromEntries(entries, obj) ==
    IF entries = <<>> THEN obj
    ELSE FromEntries(Tail(entries),
            [k \in DOMAIN obj \cup {entries[1][1]} |->
                IF k = entries[1][1]
                THEN (IF Len(entries[1]) >= 2 THEN Str(entries[1][2]) ELSE Undefined)
                ELSE obj[k]])
RECURSIVE SplitEach(_, _)
SplitEach(tokens, c) ==
    IF tokens = <<>> THEN <<>> ELSE <<Split(tokens[1], c)>> \o SplitEach(Tail(tokens), c)
OperationsJSON(prefix) ==
    FromEntries(SplitEach(Split(prefix, ","), "="), [k \in {} |-> Undefined])
\* operationsJSON[key]
Lookup(ops, key) == IF key \in DOMAIN ops THEN ops[key] ELSE Undefined

\* resizingOptions: width and height are set when the field is truthy.
ResizingOptions(ops) ==
    [k \in (IF Truthy(Lookup(ops, S_width)) THEN {"width"} ELSE {})
           \cup (IF Truthy(Lookup(ops, S_height)) THEN {"height"} ELSE {}) |->
        IF k = "width" THEN parseInt(Lookup(ops, S_width))
        ELSE parseInt(Lookup(ops, S_height))]

\* The switch on operationsJSON['format'].
FormatContentType(format) ==
    IF format = S_jpeg THEN "image/jpeg"
    ELSE IF format = S_gif THEN "image/gif"
    ELSE IF format = S_webp THEN "image/webp"
    ELSE IF format = S_png THEN "image/png"
    ELSE IF format = S_avif THEN "image/avif"
    ELSE "image/jpeg"
IsLossy(format) ==
    IF format = S_jpeg THEN TRUE
    ELSE IF format = S_gif THEN FALSE
    ELSE IF format = S_webp THEN TRUE
    ELSE IF format = S_png THEN FALSE
    ELSE IF format = S_avif THEN TRUE
    ELSE TRUE

\* Variant of ResolvedContentType without the svg-to-png rule.
ResolvedContentTypeNoSvgRule(ops, sourceType) ==
    IF Truthy(Lookup(ops, S_format)) THEN FormatContentType(Lookup(ops, S_format).s)
    ELSE sourceType

\* The content type after the format branch.
ResolvedContentType(ops, sourceType) ==
    IF Truthy(Lookup(ops, S_format)) THEN FormatContentType(Lookup(ops, S_format).s)
    ELSE IF sourceType = "image/svg+xml" THEN "image/png"
    ELSE sourceType

\* A call on the image engine.
Call(op, format, options) == [op |-> op, format |-> format, options |-> options]
NoOptions == [k \in {} |-> NaN]
\* The first argument of toFormat.
ToFormatName(ops) == Lookup(ops, S_format).s
\* The second argument of toFormat: quality is passed when the quality field
\* is truthy and the format is lossy.
ToFormatOptions(ops) ==
    IF Truthy(Lookup(ops, S_quality)) /\ IsLossy(Lookup(ops, S_format).s)
    THEN [k \in {"quality"} |-> parseInt(Lookup(ops, S_quality))]
    ELSE NoOptions

\* Variant of TransformCalls that rotates only when a resize was requested.
TransformCallsRotateOnlyOnResize(ops, metadata) ==
    <<Call("resize", <<>>, ResizingOptions(ops))>>
    \o (IF NumberTruthy(metadata.orientation) /\ DOMAIN ResizingOptions(ops) # {}
        THEN <<Call("rotate", <<>>, NoOptions)>> ELSE <<>>)
    \o (IF Truthy(Lookup(ops, S_format))
        THEN <<Call("toFormat", ToFormatName(ops), ToFormatOptions(ops))>>
        ELSE <<>>)

\* The engine calls of the try block before toBuffer, in order.
TransformCalls(ops, metadata) ==
    <<Call("resize", <<>>, ResizingOptions(ops))>>
    \o (IF NumberTruthy(metadata.orientation) THEN <<Call("rotate", <<>>, NoOptions)>> ELSE <<>>)
    \o (IF Truthy(Lookup(ops, S_format))
        THEN <<Call("toFormat", ToFormatName(ops), ToFormatOptions(ops))>>
        ELSE <<>>)

\* Variant of ImageTooBig that compares with 0 when the maximum is NaN.
ImageTooBigNaNAsZero(image, max) == Len(image) > max.n

\* Variant of ImageTooBig that lets one byte more through.
ImageTooBigOffByOne(image, max) == ~max.nan /\ Len(image) > max.n + 1

\* Buffer.byteLength(transformedImage) > MAX_IMAGE_SIZE; a comparison with
\* NaN is false.
ImageTooBig(image, max) == ~max.nan /\ Len(image) > max.n

\* Variant of PutImageCommand keyed by the source path alone.
PutImageCommandKeyedByPath(image, bucket, path, prefix, type, ttl) ==
    [Body |-> image, Bucket |-> bucket.s, Key |-> path,
     ContentType |-> type, Metadata |-> [cacheControl |-> ttl]]

PutImageCommand(image, bucket, path, prefix, type, ttl) ==
    [Body |-> image, Bucket |-> bucket.s, Key |-> path \o <<"/">> \o prefix,
     ContentType |-> type, Metadata |-> [cacheControl |-> ttl]]

\* Variant of Location that keeps the commas of the directive.
LocationKeepCommas(path, prefix) == <<"/">> \o path \o <<"?">> \o prefix

Location(path, prefix) == <<"/">> \o path \o <<"?">> \o ReplaceAll(prefix, ",", "&")
\* The return value inside the try block of the upload.
RedirectResponse(path, prefix, timing) ==
    [statusCode |-> 302,
     headers |-> [Location |-> Location(path, prefix),
                  CacheControl |-> "private,no-store",
                  ServerTiming |-> timing]]
\* The return value of the handler's last statement when the image fits.
InlineResponse(image, type, ttl, timing) ==
    [statusCode |-> 200,
     body |-> Base64(image),
     isBase64Encoded |-> TRUE,
     headers |-> [ContentType |-> type, CacheControl |-> ttl, ServerTiming |-> timing]]
\* Variant of FinalResponse that answers inline whatever the size.
FinalResponseAlwaysInline(tooBig, image, type, ttl, timing) ==
    InlineResponse(image, type, ttl, timing)

\* The handler's last statement.
FinalResponse(tooBig, image, type, ttl, timing) ==
    IF tooBig THEN sendError(403, "Requested transformed image is too big")
    ELSE InlineResponse(image, type, ttl, timing)
\* What the last statement logs (through sendError).
FinalLog(tooBig) ==
    IF tooBig THEN <<"Requested transformed image is too big">> ELSE <<>>

\* The bucket after a PutObject: the object replaces the one of its key.
EmptyStore == [k \in {} |-> [Body |-> <<>>, ContentType |-> "null"]]
Stored(store, command) ==
    [k \in DOMAIN store \cup {command.Key} |->
        IF k = command.Key
        THEN [Body |-> command.Body, ContentType |-> command.ContentType]
        ELSE store[k]]
\* No second invocation.
NoInvocation == [pc |-> "none"]

\* ------------------------------------------------------------- behaviour
Init ==
    /\ S3_TRANSFORMED_IMAGE_BUCKET \in EnvBucketNames
    /\ TRANSFORMED_IMAGE_CACHE_TTL \in EnvCacheTTLs
    /\ \E e \in EnvMaxImageSizes : MAX_IMAGE_SIZE = parseInt(e)
    /\ event \in Events
    /\ pc = "start"
    /\ operationsPrefix = <<>>
    /\ originalImagePath = <<>>
    /\ imageUrl = <<>>
    /\ response = [kind |-> "none", status |-> 0, contentType |-> "null"]
    /\ contentType = "undefined"
    /\ imageMetadata = [orientation |-> [def |-> FALSE, n |-> 0]]
    /\ operationsJSON = [k \in {} |-> Undefined]
    /\ sharpCalls = <<>>
    /\ sharpError = "none"
    /\ transformedImage = <<>>
    /\ imageTooBig = FALSE
    /\ timingLog = <<>>
    /\ fetched = <<>>
    /\ putCommands = <<>>
    /\ putResults = <<>>
    /\ errorLog = <<>>
    /\ returned = <<>>
    /\ rejected = FALSE
    /\ parked = NoInvocation
    /\ cacheStore = EmptyStore

\* The handler up to its first await: the method check, the path split and
\* the call of fetch.
Begin ==
    /\ pc = "start"
    /\ IF ~MethodAccepted(event)
       THEN /\ returned' = Append(returned, sendError(400, "Only GET method is supported"))
            /\ errorLog' = Append(errorLog, "Only GET method is supported")
            /\ pc' = "done"
            /\ UNCHANGED request
       ELSE /\ operationsPrefix' = OperationsPrefix(event.path)
            /\ originalImagePath' = OriginalImagePath(event.path)
            /\ imageUrl' = ImageUrl(OriginalImagePath(event.path))
            /\ fetched' = Append(fetched, ImageUrl(OriginalImagePath(event.path)))
            /\ pc' = "fetching"
            /\ UNCHANGED <<returned, errorLog>>
    /\ UNCHANGED <<config, outside, response, contentType, imageMetadata, operationsJSON,
                   sharpCalls, sharpError, transformedImage, imageTooBig, timingLog,
                   putCommands, putResults, rejected>>

\* fetch settles: a network error or a response that is not ok is caught and
\* answered with 500; otherwise the body and the content type are kept.
FetchSettles ==
    /\ pc = "fetching"
    /\ \E r \in FetchResults :
        /\ response' = r
        /\ IF ResponseOk(r)
           THEN /\ contentType' = r.contentType
                /\ pc' = "decoding"
                /\ UNCHANGED <<returned, errorLog>>
           ELSE /\ returned' = Append(returned, sendError(500, "Error downloading original image"))
                /\ errorLog' = Append(errorLog, "Error downloading original image")
                /\ pc' = "done"
                /\ UNCHANGED contentType
    /\ UNCHANGED <<config, outside, request, imageMetadata, operationsJSON, sharpCalls,
                   sharpError, transformedImage, imageTooBig, timingLog, putCommands,
                   putResults, rejected>>

\* Sharp(...) throws or metadata() rejects: both are outside every try block,
\* so the exception leaves the handler.
DecodeThrows ==
    /\ pc = "decoding"
    /\ \E n \in 1..2 :
        /\ sharpCalls' = SubSeq(<<Call("Sharp", <<>>, NoOptions),
                                  Call("metadata", <<>>, NoOptions)>>, 1, n)
        /\ sharpError' = IF n = 1 THEN "Sharp" ELSE "metadata"
    /\ rejected' = TRUE
    /\ pc' = "done"
    /\ UNCHANGED <<config, outside, request, response, contentType, imageMetadata,
                   operationsJSON, transformedImage, imageTooBig, timingLog,
                   putCommands, putResults, errorLog, returned>>

\* metadata() resolves; the directive is parsed, the download is timed and
\* the try block runs up to the await of toBuffer.  Any of its engine calls
\* may throw (failAt names the call), which is caught and answered with 500.
Transform ==
    /\ pc = "decoding"
    /\ \E o \in Orientations, ops \in {OperationsJSON(operationsPrefix)} :
        \E calls \in {TransformCalls(ops, [orientation |-> o])},
           decode \in {<<Call("Sharp", <<>>, NoOptions), Call("metadata", <<>>, NoOptions)>>} :
          \E failAt \in 0..Len(calls) :
            /\ imageMetadata' = [orientation |-> o]
            /\ operationsJSON' = ops
            /\ timingLog' = <<"img-download">>
            /\ IF failAt = 0
               THEN /\ sharpCalls' = decode \o calls \o <<Call("toBuffer", <<>>, NoOptions)>>
                    /\ contentType' = ResolvedContentType(ops, contentType)
                    /\ pc' = "encoding"
                    /\ UNCHANGED <<returned, errorLog, sharpError>>
               ELSE /\ sharpCalls' = decode \o SubSeq(calls, 1, failAt)
                    /\ sharpError' = calls[failAt].op
                    /\ contentType' =
                         IF calls[failAt].op = "toFormat"
                         THEN ResolvedContentType(ops, contentType) ELSE contentType
                    /\ returned' = Append(returned, sendError(500, "error transforming image"))
                    /\ errorLog' = Append(errorLog, "error transforming image")
                    /\ pc' = "done"
    /\ UNCHANGED <<config, outside, request, response, transformedImage, imageTooBig,
                   putCommands, putResults, rejected>>

\* toBuffer() rejects: caught, 500.
EncodeFails ==
    /\ pc = "encoding"
    /\ sharpError' = "toBuffer"
    /\ returned' = Append(returned, sendError(500, "error transforming image"))
    /\ errorLog' = Append(errorLog, "error transforming image")
    /\ pc' = "done"
    /\ UNCHANGED <<config, outside, request, response, contentType, imageMetadata,
                   operationsJSON, sharpCalls, transformedImage, imageTooBig,
                   timingLog, putCommands, putResults, rejected>>

\* Variant of EncodeDone that consults the cache bucket: when an object is
\* already stored under the key, it redirects to it instead of putting.
EncodeDoneServesCached ==
    /\ pc = "encoding"
    /\ \E b \in Buffers :
        /\ transformedImage' = b
        /\ timingLog' = Append(timingLog, "img-transform")
        /\ imageTooBig' = ImageTooBig(b, MAX_IMAGE_SIZE)
        /\ IF Truthy(S3_TRANSFORMED_IMAGE_BUCKET)
              /\ (originalImagePath \o <<"/">> \o operationsPrefix) \notin DOMAIN cacheStore
           THEN /\ putCommands' = Append(putCommands,
                      PutImageCommand(b, S3_TRANSFORMED_IMAGE_BUCKET, originalImagePath,
                                      operationsPrefix, contentType,
                                      TRANSFORMED_IMAGE_CACHE_TTL))
                /\ pc' = "uploading"
                /\ UNCHANGED <<returned, errorLog>>
           ELSE /\ returned' = Append(returned,
                      IF Truthy(S3_TRANSFORMED_IMAGE_BUCKET)
                      THEN RedirectResponse(originalImagePath, operationsPrefix,
                                            Append(timingLog, "img-transform"))
                      ELSE FinalResponse(ImageTooBig(b, MAX_IMAGE_SIZE), b, contentType,
                                         TRANSFORMED_IMAGE_CACHE_TTL,
                                         Append(timingLog, "img-transform")))
                /\ errorLog' = errorLog
                /\ pc' = "done"
                /\ UNCHANGED putCommands
    /\ UNCHANGED <<config, outside, request, response, contentType, imageMetadata,
                   operationsJSON, sharpCalls, sharpError, putResults, rejected>>

\* toBuffer() resolves: the transform is timed, the size is compared, and the
\* image is either sent to the cache bucket or answered at once.
EncodeDone ==
    /\ pc = "encoding"
    /\ \E b \in Buffers :
        /\ transformedImage' = b
        /\ timingLog' = Append(timingLog, "img-transform")
        /\ imageTooBig' = ImageTooBig(b, MAX_IMAGE_SIZE)
        /\ IF Truthy(S3_TRANSFORMED_IMAGE_BUCKET)
           THEN /\ putCommands' = Append(putCommands,
                      PutImageCommand(b, S3_TRANSFORMED_IMAGE_BUCKET, originalImagePath,
                                      operationsPrefix, contentType,
                                      TRANSFORMED_IMAGE_CACHE_TTL))
                /\ pc' = "uploading"
                /\ UNCHANGED <<returned, errorLog>>
           ELSE /\ returned' = Append(returned,
                      FinalResponse(ImageTooBig(b, MAX_IMAGE_SIZE), b, contentType,
                                    TRANSFORMED_IMAGE_CACHE_TTL,
                                    Append(timingLog, "img-transform")))
                /\ errorLog' = errorLog \o FinalLog(ImageTooBig(b, MAX_IMAGE_SIZE))
                /\ pc' = "done"
                /\ UNCHANGED putCommands
    /\ UNCHANGED <<config, outside, request, response, contentType, imageMetadata,
                   operationsJSON, sharpCalls, sharpError, putResults, rejected>>

\* s3Client.send resolves: the upload is timed; an image that is too big is
\* answered with the redirect, any other with the last statement.
UploadDone ==
    /\ pc = "uploading"
    /\ putResults' = Append(putResults, "ok")
    /\ timingLog' = Append(timingLog, "img-upload")
    /\ returned' = Append(returned,
          IF imageTooBig
          THEN RedirectResponse(originalImagePath, operationsPrefix,
                                Append(timingLog, "img-upload"))
          ELSE FinalResponse(imageTooBig, transformedImage, contentType,
                             TRANSFORMED_IMAGE_CACHE_TTL,
                             Append(timingLog, "img-upload")))
    /\ pc' = "done"
    /\ cacheStore' = Stored(cacheStore, putCommands[Len(putCommands)])
    /\ UNCHANGED <<config, parked, request, response, contentType, imageMetadata,
                   operationsJSON, sharpCalls, sharpError, transformedImage,
                   imageTooBig, putCommands, errorLog, rejected>>

\* Variant of UploadFails in which the failed upload fails the request.
UploadFailsFatal ==
    /\ pc = "uploading"
    /\ putResults' = Append(putResults, "failed")
    /\ errorLog' = Append(errorLog, "Could not upload transformed image to S3")
    /\ returned' = Append(returned, sendError(500, "Could not upload transformed image to S3"))
    /\ pc' = "done"
    /\ UNCHANGED <<config, outside, request, response, contentType, imageMetadata,
                   operationsJSON, sharpCalls, sharpError, transformedImage,
                   imageTooBig, timingLog, putCommands, rejected>>

\* Variant of UploadFails that sends the command once more after a failure.
UploadFailsRetry ==
    /\ pc = "uploading"
    /\ putResults' = Append(putResults, "failed")
    /\ IF Len(putCommands) < 2
       THEN /\ putCommands' = Append(putCommands, putCommands[1])
            /\ errorLog' = Append(errorLog, "Could not upload transformed image to S3")
            /\ pc' = "uploading"
            /\ UNCHANGED returned
       ELSE /\ errorLog' = Append(errorLog, "Could not upload transformed image to S3")
                             \o FinalLog(imageTooBig)
            /\ returned' = Append(returned,
                  FinalResponse(imageTooBig, transformedImage, contentType,
                                TRANSFORMED_IMAGE_CACHE_TTL, timingLog))
            /\ pc' = "done"
            /\ UNCHANGED putCommands
    /\ UNCHANGED <<config, outside, request, response, contentType, imageMetadata,
                   operationsJSON, sharpCalls, sharpError, transformedImage,
                   imageTooBig, timingLog, rejected>>

\* s3Client.send rejects: logged, and the handler goes on to its last
\* statement.
UploadFails ==
    /\ pc = "uploading"
    /\ putResults' = Append(putResults, "failed")
    /\ errorLog' = Append(errorLog, "Could not upload transformed image to S3")
                     \o FinalLog(imageTooBig)
    /\ returned' = Append(returned,
          FinalResponse(imageTooBig, transformedImage, contentType,
                        TRANSFORMED_IMAGE_CACHE_TTL, timingLog))
    /\ pc' = "done"
    /\ UNCHANGED <<config, outside, request, response, contentType, imageMetadata,
                   operationsJSON, sharpCalls, sharpError, transformedImage,
                   imageTooBig, timingLog, putCommands, rejected>>

\* ------------------------------------------------- two invocations
\* The local variables of the running invocation.
Locals ==
    [event |-> event,
     pc |-> pc,
     operationsPrefix |-> operationsPrefix,
     originalImagePath |-> originalImagePath,
     imageUrl |-> imageUrl,
     response |-> response,
     contentType |-> contentType,
     imageMetadata |-> imageMetadata,
     operationsJSON |-> operationsJSON,
     sharpCalls |-> sharpCalls,
     sharpError |-> sharpError,
     transformedImage |-> transformedImage,
     imageTooBig |-> imageTooBig,
     timingLog |-> timingLog,
     fetched |-> fetched,
     putCommands |-> putCommands,
     putResults |-> putResults,
     errorLog |-> errorLog,
     returned |-> returned,
     rejected |-> rejected]

\* Requests of the two invocations: two directives for one source key, and a
\* request that is not a GET.
PairDirectives == { <<"w", "i", "d", "t", "h", "=", "1", "0", "0">>, <<"f", "o", "r", "m", "a", "t", "=", "w", "e", "b", "p", ",", "q", "u", "a", "l", "i", "t", "y", "=", "8", "0">> }
PairEvents ==
    { [requestContext |-> TRUE, http |-> TRUE, method |-> "GET",
       path |-> <<"/">> \o RootSegment \o <<"/">> \o k \o <<"/">> \o d] :
          k \in SourceKeys, d \in PairDirectives }
    \cup { [requestContext |-> TRUE, http |-> TRUE, method |-> "POST",
            path |-> <<"/">> \o RootSegment \o <<"/">> \o k \o <<"/">> \o S_original] :
               k \in SourceKeys }
\* The request of the invocation that starts first.
FirstEvents == { e \in PairEvents : OperationsPrefix(e.path) = <<"f", "o", "r", "m", "a", "t", "=", "w", "e", "b", "p", ",", "q", "u", "a", "l", "i", "t", "y", "=", "8", "0">> }
\* What the cache bucket holds before the two invocations: nothing, or an
\* object under the key of each GET request.
RECURSIVE StoredAll(_, _)
StoredAll(store, keys) ==
    IF keys = {} THEN store
    ELSE LET k == CHOOSE x \in keys : TRUE
         IN StoredAll(Stored(store, [Key |-> k, Body |-> <<7>>, ContentType |-> "image/gif"]),
                      keys \ {k})
PairStores ==
    { EmptyStore,
      StoredAll(EmptyStore, { Tail(e.path) : e \in { x \in PairEvents : x.method = "GET" } }) }
\* The variables of an invocation that has not started.
Fresh(ev) ==
    [event |-> ev, pc |-> "start", operationsPrefix |-> <<>>,
     originalImagePath |-> <<>>, imageUrl |-> <<>>,
     response |-> [kind |-> "none", status |-> 0, contentType |-> "null"],
     contentType |-> "undefined",
     imageMetadata |-> [orientation |-> [def |-> FALSE, n |-> 0]],
     operationsJSON |-> [k \in {} |-> Undefined], sharpCalls |-> <<>>,
     sharpError |-> "none", transformedImage |-> <<>>, imageTooBig |-> FALSE,
     timingLog |-> <<>>, fetched |-> <<>>, putCommands |-> <<>>,
     putResults |-> <<>>, errorLog |-> <<>>, returned |-> <<>>, rejected |-> FALSE]

\* Two invocations of one module instance with a cache bucket and a maximum.
InitPair ==
    /\ S3_TRANSFORMED_IMAGE_BUCKET \in { b \in EnvBucketNames : Truthy(b) }
    /\ TRANSFORMED_IMAGE_CACHE_TTL \in EnvCacheTTLs
    /\ \E e \in { m \in EnvMaxImageSizes : ~parseInt(m).nan } : MAX_IMAGE_SIZE = parseInt(e)
    /\ event \in FirstEvents
    /\ pc = "start"
    /\ operationsPrefix = <<>>
    /\ originalImagePath = <<>>
    /\ imageUrl = <<>>
    /\ response = [kind |-> "none", status |-> 0, contentType |-> "null"]
    /\ contentType = "undefined"
    /\ imageMetadata = [orientation |-> [def |-> FALSE, n |-> 0]]
    /\ operationsJSON = [k \in {} |-> Undefined]
    /\ sharpCalls = <<>>
    /\ sharpError = "none"
    /\ transformedImage = <<>>
    /\ imageTooBig = FALSE
    /\ timingLog = <<>>
    /\ fetched = <<>>
    /\ putCommands = <<>>
    /\ putResults = <<>>
    /\ errorLog = <<>>
    /\ returned = <<>>
    /\ rejected = FALSE
    /\ parked \in { Fresh(e) : e \in PairEvents }
    /\ cacheStore \in PairStores

\* The running invocation is suspended at its await (or has ended) and the
\* other one runs on: each invocation has its own copy of the handler's local
\* variables, the module constants and the bucket are the same for both.
Switch ==
    /\ parked.pc \notin {"none", "done"}
    /\ parked' = Locals
    /\ event' = parked.event
    /\ pc' = parked.pc
    /\ operationsPrefix' = parked.operationsPrefix
    /\ originalImagePath' = parked.originalImagePath
    /\ imageUrl' = parked.imageUrl
    /\ response' = parked.response
    /\ contentType' = parked.contentType
    /\ imageMetadata' = parked.imageMetadata
    /\ operationsJSON' = parked.operationsJSON
    /\ sharpCalls' = parked.sharpCalls
    /\ sharpError' = parked.sharpError
    /\ transformedImage' = parked.transformedImage
    /\ imageTooBig' = parked.imageTooBig
    /\ timingLog' = parked.timingLog
    /\ fetched' = parked.fetched
    /\ putCommands' = parked.putCommands
    /\ putResults' = parked.putResults
    /\ errorLog' = parked.errorLog
    /\ returned' = parked.returned
    /\ rejected' = parked.rejected
    /\ UNCHANGED <<S3_TRANSFORMED_IMAGE_BUCKET, TRANSFORMED_IMAGE_CACHE_TTL,
                   MAX_IMAGE_SIZE, cacheStore>>

Next ==
    \/ Begin
    \/ FetchSettles
    \/ DecodeThrows
    \/ Transform
    \/ EncodeFails
    \/ EncodeDone
    \/ UploadDone
    \/ UploadFails

Spec == Init /\ [][Next]_vars

\* Orientations of the sources the two invocations fetch.
PairOrientations == { o \in Orientations : ~o.def }
\* A step of the running invocation, or a switch to the other one.
NextPair ==
    \/ Begin
    \/ FetchSettles
    \/ DecodeThrows
    \/ Transform /\ imageMetadata'.orientation \in PairOrientations
    \/ EncodeFails
    \/ EncodeDone
    \/ UploadDone
    \/ UploadFails
    \/ Switch

SpecPair == InitPair /\ [][NextPair]_vars

\* ------------------------------------------------------------- properties
\* The invocation has ended, by a return or by an uncaught exception.
Done == pc = "done"
\* The encode step completed: the handler holds a transformed image.
Encoded == transformedImage # <<>>
\* The transformed byte length is greater than the configured maximum.
Oversized == ~MAX_IMAGE_SIZE.nan /\ Len(transformedImage) > MAX_IMAGE_SIZE.n
CacheConfigured == S3_TRANSFORMED_IMAGE_BUCKET.def /\ S3_TRANSFORMED_IMAGE_BUCKET.s # <<>>
\* The request is a GET with its request context.
IsGet == event.requestContext /\ event.http /\ event.method = "GET"
FetchFailed ==
    \/ response.kind = "error"
    \/ response.kind = "response" /\ ~(response.status \in 200..299)
ToFormatCalls == { i \in 1..Len(sharpCalls) : sharpCalls[i].op = "toFormat" }

\* C1: a returned value with statusCode 200 carries the base64 text of a
\* transformed image whose byte length is not greater than the configured
\* maximum, whatever the cache configuration and the result of the cache write.
C1_InlineNeverOversized ==
    \A i \in 1..Len(returned) :
        returned[i].statusCode = 200 =>
            /\ Encoded
            /\ returned[i].body = Base64(transformedImage)
            /\ ~Oversized
\* A 200 for an image of exactly the maximum size after a failed cache write.
C1_Witness ==
    /\ Done
    /\ returned # <<>> /\ returned[1].statusCode = 200
    /\ ~MAX_IMAGE_SIZE.nan /\ Len(transformedImage) = MAX_IMAGE_SIZE.n
    /\ putResults = <<"failed">>

\* C2: when the image is oversized, a cache bucket is configured and the put
\* succeeded, the handler returns exactly one value: a 302 without a body,
\* whose Location is '/' + source path + '?' + the directive with '&' for
\* every ',', with Cache-Control 'private,no-store' and a Server-Timing header.
C2_OversizedCachedRedirects ==
    (Done /\ Encoded /\ Oversized /\ CacheConfigured /\ putResults = <<"ok">>) =>
        /\ Len(returned) = 1
        /\ returned[1].statusCode = 302
        /\ DOMAIN returned[1] = {"statusCode", "headers"}
        /\ DOMAIN returned[1].headers = {"Location", "CacheControl", "ServerTiming"}
        /\ returned[1].headers.CacheControl = "private,no-store"
        /\ LET loc == returned[1].headers.Location
               n == Len(originalImagePath)
               m == Len(operationsPrefix)
           IN /\ Len(loc) = n + m + 2
              /\ loc[1] = "/"
              /\ SubSeq(loc, 2, n + 1) = originalImagePath
              /\ loc[n + 2] = "?"
              /\ \A j \in 1..m :
                    loc[n + 2 + j] = IF operationsPrefix[j] = "," THEN "&"
                                     ELSE operationsPrefix[j]
\* A redirect for a directive that has a comma.
C2_Witness ==
    /\ Done /\ Encoded /\ Oversized /\ CacheConfigured /\ putResults = <<"ok">>
    /\ \E j \in 1..Len(operationsPrefix) : operationsPrefix[j] = ","
    /\ returned # <<>> /\ returned[1].statusCode = 302

\* C3: when the image is oversized and no cache bucket is configured or the
\* put failed, the handler returns exactly one value, the 403 'Requested
\* transformed image is too big'.
C3_OversizedUncachedForbidden ==
    (Done /\ Encoded /\ Oversized /\ (~CacheConfigured \/ putResults = <<"failed">>)) =>
        returned = << [statusCode |-> 403,
                       body |-> "Requested transformed image is too big"] >>
\* A 403 after a failed put of an oversized image.
C3_Witness ==
    /\ Done /\ Encoded /\ Oversized /\ CacheConfigured /\ putResults = <<"failed">>
    /\ returned # <<>> /\ returned[1].statusCode = 403

\* C4: when the image is not oversized and a cache bucket is configured, one
\* put is sent, and whether it succeeds or fails the handler returns a 200
\* with the base64 text of the transformed image, the resolved content type
\* and the configured cache-control value.
C4_BestEffortCacheWrite ==
    (Encoded /\ ~Oversized /\ CacheConfigured) =>
        /\ Len(putCommands) = 1
        /\ Done =>
            /\ Len(putResults) = 1
            /\ Len(returned) = 1
            /\ returned[1].statusCode = 200
            /\ returned[1].body = Base64(transformedImage)
            /\ returned[1].isBase64Encoded
            /\ returned[1].headers.ContentType = contentType
            /\ returned[1].headers.CacheControl = TRANSFORMED_IMAGE_CACHE_TTL
\* A 200 after a failed put, with the failure logged.
C4_Witness ==
    /\ Done /\ Encoded /\ ~Oversized /\ CacheConfigured
    /\ putResults = <<"failed">>
    /\ errorLog = <<"Could not upload transformed image to S3">>
    /\ returned # <<>> /\ returned[1].statusCode = 200

\* C5: for a request that is not a GET or has no request context, nothing is
\* fetched, no engine call is made, no put is sent, and the handler returns
\* exactly the 400 'Only GET method is supported'.
C5_NonGetRejected ==
    ~IsGet =>
        /\ fetched = <<>> /\ sharpCalls = <<>> /\ putCommands = <<>>
        /\ pc \in {"start", "done"}
        /\ Done => returned = << [statusCode |-> 400,
                                  body |-> "Only GET method is supported"] >>
\* A POST answered with 400.
C5_Witness ==
    /\ Done /\ event.requestContext /\ event.http /\ event.method = "POST"
    /\ returned # <<>> /\ returned[1].statusCode = 400

\* C6: when fetch rejects or its response is not a success, the invocation
\* ends with exactly one returned value, a 500, and no engine call is made and
\* no put is sent.
C6_FetchFailureIs500 ==
    FetchFailed =>
        /\ Done
        /\ Len(returned) = 1 /\ returned[1].statusCode = 500
        /\ sharpCalls = <<>> /\ putCommands = <<>> /\ transformedImage = <<>>
\* A 404 from the source answered with 500.
C6_Witness ==
    /\ Done /\ response.kind = "response" /\ response.status = 404
    /\ returned # <<>> /\ returned[1].statusCode = 500

\* C7: when an engine call threw at any step (Sharp, metadata, resize, rotate,
\* toFormat, toBuffer), the invocation ends with exactly one returned value, a
\* 500 without image bytes, and no put is sent.
C7_EngineErrorIs500 ==
    (Done /\ sharpError # "none") =>
        /\ returned = << [statusCode |-> 500, body |-> "error transforming image"] >>
        /\ ~rejected
        /\ putCommands = <<>>

\* C8: an invocation never returns twice, and when it has ended it has
\* returned exactly one value, with statusCode 200, 302, 400, 403 or 500, and
\* its promise has not rejected.
C8_ExactlyOneOutcome ==
    /\ Len(returned) <= 1
    /\ Done =>
        /\ Len(returned) = 1
        /\ returned[1].statusCode \in {200, 302, 400, 403, 500}
        /\ ~rejected

\* C9: every toFormat call names one of jpeg, gif, webp, png, avif, and that
\* name is the one of the resolved content type ('image/' + name); an
\* unrecognized format is encoded as jpeg.
C9_EncodeFormatMatchesContentType ==
    \A i \in ToFormatCalls :
        \/ sharpCalls[i].format = S_jpeg /\ contentType = "image/jpeg"
        \/ sharpCalls[i].format = S_gif /\ contentType = "image/gif"
        \/ sharpCalls[i].format = S_webp /\ contentType = "image/webp"
        \/ sharpCalls[i].format = S_png /\ contentType = "image/png"
        \/ sharpCalls[i].format = S_avif /\ contentType = "image/avif"

\* C10: a toFormat call is given a quality exactly when the resolved format is
\* lossy (jpeg, webp, avif) and the quality field of the directive parses to
\* an integer, and the quality it is given is that integer.
C10_QualityOnlyWhenLossyAndValid ==
    \A i \in ToFormatCalls :
        LET quality == parseInt(Lookup(operationsJSON, S_quality))
            lossy == contentType \in {"image/jpeg", "image/webp", "image/avif"}
        IN /\ ("quality" \in DOMAIN sharpCalls[i].options) <=> (lossy /\ ~quality.nan)
           /\ ("quality" \in DOMAIN sharpCalls[i].options) =>
                 sharpCalls[i].options["quality"] = quality

\* The content type a request without a format inherits from the source.
InheritedContentType ==
    IF response.contentType = "image/svg+xml" THEN "image/png" ELSE response.contentType
HasSlash(s) == \E j \in 1..Len(s) : s[j] = "/"

\* C11: when the directive has no format, toFormat is never called (no format
\* and no quality reach the encode step), and the content type of a 200 and
\* of every put is the content type of the fetched source, image/png for a
\* source of type image/svg+xml.
C11_NoFormatInheritsContentType ==
    ~Truthy(Lookup(operationsJSON, S_format)) =>
        /\ ToFormatCalls = {}
        /\ \A i \in 1..Len(putCommands) :
              putCommands[i].ContentType = InheritedContentType
        /\ \A i \in 1..Len(returned) :
              returned[i].statusCode = 200 =>
                  returned[i].headers.ContentType = InheritedContentType
\* An svg source requested as 'original', cached and returned as image/png.
C11_Witness ==
    /\ Done /\ operationsPrefix = S_original
    /\ response.contentType = "image/svg+xml"
    /\ putCommands # <<>> /\ putCommands[1].ContentType = "image/png"
    /\ returned # <<>> /\ returned[1].statusCode = 200
    /\ returned[1].headers.ContentType = "image/png"

\* C12 as claimed: the path is '/' + a root segment + '/' + source key + '/' +
\* directive, the root segment being left out of the source key.
C12_RootSegmentIgnored ==
    (IsGet /\ pc # "start") =>
        \E n \in 2..Len(event.path) :
            /\ ~HasSlash(SubSeq(event.path, 2, n))
            /\ ~HasSlash(operationsPrefix)
            /\ event.path = <<"/">> \o SubSeq(event.path, 2, n) \o <<"/">>
                              \o originalImagePath \o <<"/">> \o operationsPrefix
\* C12 as amended: the path is '/' + source key + '/' + directive, the
\* directive being the last segment: only the empty segment before the leading
\* '/' is dropped, so the first named segment is part of the source key.  The
\* same key, with '+' for every space, follows the base URL in the fetched
\* URL, prefixes the key of every put and follows '/' in the Location of a 302.
C12_KeyKeepsFirstSegment ==
    (IsGet /\ pc # "start") =>
        /\ ~HasSlash(operationsPrefix)
        /\ event.path = <<"/">> \o originalImagePath \o <<"/">> \o operationsPrefix
        /\ Len(fetched) = 1
        /\ Len(fetched[1]) = Len(S_BASE_URL) + 1 + Len(originalImagePath)
        /\ SubSeq(fetched[1], 1, Len(S_BASE_URL) + 1) = S_BASE_URL \o <<"/">>
        /\ \A j \in 1..Len(originalImagePath) :
              fetched[1][Len(S_BASE_URL) + 1 + j] =
                  IF originalImagePath[j] = " " THEN "+" ELSE originalImagePath[j]
        /\ \A i \in 1..Len(putCommands) :
              putCommands[i].Key = originalImagePath \o <<"/">> \o operationsPrefix
        /\ \A i \in 1..Len(returned) :
              returned[i].statusCode = 302 =>
                  SubSeq(returned[i].headers.Location, 1, Len(originalImagePath) + 2)
                      = <<"/">> \o originalImagePath \o <<"?">>
\* A redirect for a key with a space, whose key starts with the first segment.
C12_Witness ==
    /\ Done /\ returned # <<>> /\ returned[1].statusCode = 302
    /\ \E j \in 1..Len(originalImagePath) : originalImagePath[j] = " "
    /\ SubSeq(originalImagePath, 1, Len(RootSegment) + 1) = RootSegment \o <<"/">>

ResizeCalls == { i \in 1..Len(sharpCalls) : sharpCalls[i].op = "resize" }
RotateCalls == { i \in 1..Len(sharpCalls) : sharpCalls[i].op = "rotate" }
\* The directive was parsed and the try block got past its resize call.
PastResize == timingLog # <<>> /\ sharpError # "resize"
\* The integer a numeric field of the directive stands for, NaN when it is
\* absent or not numeric.
FieldNumber(key) == parseInt(Lookup(operationsJSON, key))

\* C13: a width, height or quality whose value is not numeric is treated as
\* absent: resize is given a width (height) exactly when the field parses to
\* an integer, every width or height it is given is a positive integer, and
\* toFormat is never given a quality that is not an integer.
C13_MalformedNumericIsAbsent ==
    /\ \A i \in ResizeCalls :
          /\ ("width" \in DOMAIN sharpCalls[i].options) <=> ~FieldNumber(S_width).nan
          /\ ("height" \in DOMAIN sharpCalls[i].options) <=> ~FieldNumber(S_height).nan
          /\ \A k \in DOMAIN sharpCalls[i].options :
                ~sharpCalls[i].options[k].nan /\ sharpCalls[i].options[k].n > 0
    /\ \A i \in ToFormatCalls :
          \A k \in DOMAIN sharpCalls[i].options : ~sharpCalls[i].options[k].nan

\* Position of the invocation in the order of its stages.
StageRank ==
    CASE pc = "start" -> 0
      [] pc = "fetching" -> 1
      [] pc = "decoding" -> 2
      [] pc = "encoding" -> 3
      [] pc = "uploading" -> 4
      [] pc = "done" -> 5
\* What C14 says of every state.
C14_State ==
    /\ Len(fetched) <= 1 /\ Len(putCommands) <= 1
    /\ sharpCalls # <<>> =>
          Len(fetched) = 1 /\ response.kind = "response" /\ response.status = 200
    /\ putCommands # <<>> =>
          /\ CacheConfigured
          /\ Encoded /\ sharpError = "none"
          /\ sharpCalls[Len(sharpCalls)].op = "toBuffer"
          /\ timingLog[2] = "img-transform"
          /\ imageTooBig = Oversized
    /\ (Encoded /\ CacheConfigured) => Len(putCommands) = 1
    /\ Len(putResults) <= Len(putCommands)
    /\ \A i \in 1..Len(returned) :
          returned[i].statusCode \in {200, 302, 403} => Encoded
\* C14: the stages run in the order fetch, transform, size check, cache write,
\* response and none is entered twice: every step moves the invocation to a
\* later stage, at most one fetch and at most one put are issued, the put is
\* issued only after toBuffer resolved and imageTooBig was computed, and
\* exactly one put is issued when a bucket is configured and the transform
\* succeeded.
C14_SequentialNoRetry ==
    /\ []C14_State
    /\ [][StageRank' > StageRank]_vars
\* An invocation that ended after its one put failed.
C14_Witness ==
    /\ Done /\ Len(fetched) = 1 /\ Len(putCommands) = 1
    /\ putResults = <<"failed">>

OpRank(op) ==
    CASE op = "Sharp" -> 1
      [] op = "metadata" -> 2
      [] op = "resize" -> 3
      [] op = "rotate" -> 4
      [] op = "toFormat" -> 5
      [] op = "toBuffer" -> 6
\* C15: the engine calls are made in the order Sharp, metadata, resize,
\* rotate, toFormat, toBuffer; rotate directly follows resize, and once the
\* resize call has returned, rotate has been called exactly when the metadata
\* has an orientation, whether or not a width or height was requested.
C15_FixedOrderRotateIffOrientation ==
    /\ \A i, j \in 1..Len(sharpCalls) :
          i < j => OpRank(sharpCalls[i].op) < OpRank(sharpCalls[j].op)
    /\ \A i \in RotateCalls : i > 1 /\ sharpCalls[i - 1].op = "resize"
    /\ PastResize =>
          ((RotateCalls # {}) <=> (imageMetadata.orientation.def
                                   /\ imageMetadata.orientation.n # 0))
    /\ pc \in {"encoding", "uploading"} =>
          /\ Len(sharpCalls) >= 4
          /\ sharpCalls[3].op = "resize"
          /\ sharpCalls[Len(sharpCalls)].op = "toBuffer"
\* A rotation for the directive 'original', which asks for no resize.
C15_Witness ==
    /\ operationsPrefix = S_original /\ pc = "encoding"
    /\ imageMetadata.orientation.def
    /\ RotateCalls # {}

\* C16: resize is called only when the directive has a width or a height, and
\* it is given exactly the dimensions the directive has, as integers; for a
\* directive with neither it is not called.
C16_ResizeOnlyWhenRequested ==
    /\ PastResize =>
          ((ResizeCalls # {}) <=>
              (Truthy(Lookup(operationsJSON, S_width))
               \/ Truthy(Lookup(operationsJSON, S_height))))
    /\ \A i \in ResizeCalls :
          /\ ("width" \in DOMAIN sharpCalls[i].options)
                <=> Truthy(Lookup(operationsJSON, S_width))
          /\ ("height" \in DOMAIN sharpCalls[i].options)
                <=> Truthy(Lookup(operationsJSON, S_height))
          /\ \A k \in DOMAIN sharpCalls[i].options : ~sharpCalls[i].options[k].nan

\* C17: the Server-Timing of a 200 or 302 lists img-download, img-transform
\* and, when a cache write was attempted (also one that failed), img-upload,
\* in this order.
C17_TimingListsEveryStage ==
    \A i \in 1..Len(returned) :
        returned[i].statusCode \in {200, 302} =>
            returned[i].headers.ServerTiming =
                <<"img-download", "img-transform">>
                \o (IF putCommands # <<>> THEN <<"img-upload">> ELSE <<>>)

\* C18: every put has the key <source path>/<directive> (the request path
\* without its leading '/'), the transformed bytes, the resolved content type
\* and the configured cache-control value; a 200 returns the bytes and the
\* content type of the put, and a 302 is returned only after the put of the
\* oversized image succeeded.
C18_PutCarriesInlineResult ==
    /\ \A i \in 1..Len(putCommands) :
          /\ putCommands[i].Key = Tail(event.path)
          /\ putCommands[i].Bucket = S3_TRANSFORMED_IMAGE_BUCKET.s
          /\ putCommands[i].Body = transformedImage /\ Encoded
          /\ putCommands[i].ContentType = contentType
          /\ putCommands[i].Metadata.cacheControl = TRANSFORMED_IMAGE_CACHE_TTL
    /\ \A i \in 1..Len(returned) :
          /\ (returned[i].statusCode = 200 /\ putCommands # <<>>) =>
                /\ returned[i].body = Base64(putCommands[1].Body)
                /\ returned[i].headers.ContentType = putCommands[1].ContentType
                /\ returned[i].headers.CacheControl = putCommands[1].Metadata.cacheControl
          /\ returned[i].statusCode = 302 =>
                /\ Len(putCommands) = 1 /\ putResults = <<"ok">>
                /\ Len(putCommands[1].Body) > MAX_IMAGE_SIZE.n
\* A redirect after the oversized image was put under the key of the request.
C18_Witness ==
    /\ Done /\ returned # <<>> /\ returned[1].statusCode = 302
    /\ putCommands # <<>> /\ putCommands[1].Key = Tail(event.path)
    /\ putCommands[1].Body = transformedImage

\* C20: when the parsed maximum is NaN, imageTooBig is false for every image:
\* no 302 and no 403 is returned, and an invocation whose transform succeeded
\* ends with a 200 carrying the image, whatever its size.
C20_NoMaximumNeverOversized ==
    MAX_IMAGE_SIZE.nan =>
        /\ ~imageTooBig
        /\ \A i \in 1..Len(returned) : returned[i].statusCode \notin {302, 403}
        /\ (Done /\ Encoded) =>
              /\ Len(returned) = 1
              /\ returned[1].statusCode = 200
              /\ returned[1].body = Base64(transformedImage)
\* A 200 for an image of the largest size, with no maximum.
C20_Witness ==
    /\ MAX_IMAGE_SIZE.nan /\ Done /\ Len(transformedImage) = MaxBytes
    /\ returned # <<>> /\ returned[1].statusCode = 200

\* What an invocation returns when it runs alone, from its request, what its
\* fetch, its engine calls and its put settled with, and the module constants.
AloneReturned(L) ==
    IF ~(L.event.requestContext /\ L.event.http /\ L.event.method = "GET")
    THEN << [statusCode |-> 400, body |-> "Only GET method is supported"] >>
    ELSE IF ~(L.response.kind = "response" /\ L.response.status \in 200..299)
    THEN << [statusCode |-> 500, body |-> "Error downloading original image"] >>
    ELSE IF L.sharpError \in {"Sharp", "metadata"} THEN <<>>
    ELSE IF L.sharpError # "none"
    THEN << [statusCode |-> 500, body |-> "error transforming image"] >>
    ELSE LET timing == <<"img-download", "img-transform">>
                       \o (IF L.putResults = <<"ok">> THEN <<"img-upload">> ELSE <<>>)
         IN IF ImageTooBig(L.transformedImage, MAX_IMAGE_SIZE) /\ L.putResults = <<"ok">>
            THEN << RedirectResponse(OriginalImagePath(L.event.path),
                                     OperationsPrefix(L.event.path), timing) >>
            ELSE << FinalResponse(
                      ImageTooBig(L.transformedImage, MAX_IMAGE_SIZE),
                      L.transformedImage,
                      ResolvedContentType(OperationsJSON(OperationsPrefix(L.event.path)),
                                          L.response.contentType),
                      TRANSFORMED_IMAGE_CACHE_TTL, timing) >>
\* An ended invocation returned what it returns alone.
EndsAsAlone(L) ==
    L.pc = "done" =>
        /\ L.returned = AloneReturned(L)
        /\ L.rejected = (L.sharpError \in {"Sharp", "metadata"})
\* C19: when two invocations are interleaved at their awaits, whatever the
\* cache bucket held before, each one that has ended returned what it returns
\* alone for its request, fetch result, engine results and put result, and no
\* step changes the module constants.
C19_InvocationsIndependent ==
    /\ [](/\ Done => \A L \in {Locals} : EndsAsAlone(L)
          /\ parked.pc = "done" => EndsAsAlone(parked))
    /\ [][UNCHANGED <<S3_TRANSFORMED_IMAGE_BUCKET, TRANSFORMED_IMAGE_CACHE_TTL,
                      MAX_IMAGE_SIZE>>]_vars
\* An invocation returned its image inline while another invocation of the
\* same request, which started first, is still waiting for its put, and the
\* bucket already held an object under their key.
C19_Witness ==
    /\ Done /\ returned # <<>> /\ returned[1].statusCode = 200
    /\ parked.pc = "uploading" /\ parked.event = event
    /\ event \notin FirstEvents \/ parked.event \in FirstEvents
    /\ Tail(event.path) \in DOMAIN cacheStore
    /\ putResults = <<"ok">>

====
